---------------------------- MODULE Spec2Model ----------------------------
(***************************************************************************)
(* Model of the alerting engine of ubuntu-server-monitor:                  *)
(*   src/monitor/alerter.py   Alerter (cooldown gate, classifier, checks)  *)
(*   src/main.py              ServerMonitor (monitor loop, one pass)       *)
(* The clock is the value time.time() returns, in seconds.  Metric values  *)
(* are integers; the thresholds are the defaults of alerter.py.            *)
(***************************************************************************)
EXTENDS Integers, Sequences, FiniteSets, TLC

VARIABLES
    clock,        \* what time.time() returns now
    config,       \* the 'alerts' section as Alerter.__init__ reads it
    last_alerts,  \* Alerter.last_alerts: alert key -> time of the last grant
    pc,           \* position of the monitor thread
    resume,       \* where the monitor thread continues when the awaited send returns
    idx,          \* loop position of check_disk / check_gpu_temp / check_gpu_memory
    snapshot,     \* the metrics collected for the pass in progress
    host,         \* the machine: its mounts, GPUCollector.device_count, what may breach
    inflight,     \* the send_func call being awaited, or NoMsg
    lastGate,     \* history: the latest _can_alert call of the pass and what it returned
    pass,         \* history: what the pass in progress (or just ended) has done
    watch,        \* the alert key whose sends the history below follows (any key)
    fired,        \* history: the _can_alert times of the last two send calls for watch
    failedAt,     \* history: the _can_alert time of the last failed send for watch, or -1
    sent,         \* history: the send_func calls of the pass, in the order they were made
    probe,        \* input and output of one _get_level call (SpecClassify)
    ctx,          \* callers inside _can_alert, one statement at a time (SpecRace)
    file,         \* what config.yaml holds when main() reads it
    proc,         \* position of the main thread in main() and start()
    running,      \* ServerMonitor.running
    thread,       \* position of the monitor thread in run_schedule (line numbers)
    left,         \* iterations left of `for _ in range(self.interval)`
    interval,     \* ServerMonitor.interval
    daily,        \* the daily report job: scheduled or not, and how far its run is
    pair          \* two (category, sub-identifier, level) triples and their keys (SpecKeys)

vars == <<clock, config, last_alerts, pc, resume, idx, snapshot, host, inflight,
          lastGate, pass, watch, fired, failedAt, sent, probe, ctx,
          file, proc, running, thread, left, interval, daily, pair>>

----------------------------------------------------------------------------
(* Bounds of the model *)

MaxTime == 4
MaxCooldown == 2
MaxValue == 4

(* Defaults of the thresholds, alerter.py *)

CpuWarningDefault == 70
CpuCriticalDefault == 90
MemoryWarningDefault == 80
MemoryCriticalDefault == 95
DiskWarningDefault == 80
DiskCriticalDefault == 95
GpuTempWarningDefault == 75
GpuTempCriticalDefault == 85
GpuMemoryWarningDefault == 80
GpuMemoryCriticalDefault == 95

Time == 0..MaxTime

\* readings below every warning default, between every warning and critical
\* default, and above every critical default
MetricValues == {0, 82, 100}
Mounts == <<"/", "/data">>
GpuIndexes == {0}
Contexts == {1, 2}

NoLevel == "None"
Levels == {"WARNING", "CRITICAL"}
NoMsg == [key |-> "", at |-> 0, cat |-> "none"]
NoSnapshot == [cpu_percent |-> 0, memory_percent |-> 0, disks |-> <<>>, gpus |-> <<>>]
NoGate == [key |-> "", now |-> 0, had |-> FALSE, prev |-> 0, granted |-> FALSE, seq |-> 0]
NoPass == [evaluated |-> {}, failed |-> "none", disks |-> FALSE, gpus |-> FALSE, start |-> 0]
NoProbe == [value |-> 0, warning |-> 0, critical |-> 0, level |-> "unset"]
NoCall == [pc |-> "out", key |-> "", now |-> 0, last_time |-> 0, granted |-> FALSE, done |-> FALSE]
NoDaily == [enabled |-> FALSE, pc |-> "idle", sent |-> FALSE]
NoTriple == [cat |-> "cpu", mountpoint |-> "", index |-> 0, level |-> "WARNING"]
NoPair == [a |-> NoTriple, b |-> NoTriple, ka |-> "", kb |-> ""]

----------------------------------------------------------------------------
(* dict.get(key, default) and dict[key] = value *)

Get(d, k, default) == IF k \in DOMAIN d THEN d[k] ELSE default

Put(d, k, v) == [x \in DOMAIN d \cup {k} |-> IF x = k THEN v ELSE d[x]]

(* The alert keys, as the f-strings of the checks build them *)

CpuKey(level) == "cpu_" \o level

MemoryKey(level) == "memory_" \o level

DiskKey(mountpoint, level) == "disk_" \o mountpoint \o "_" \o level

GpuTempKey(index, level) == "gpu_temp_" \o ToString(index) \o "_" \o level

\* a faulty variant: the GPU memory key built with the prefix of the
\* temperature key
GpuMemKey_as_temp(index, level) == "gpu_temp_" \o ToString(index) \o "_" \o level

GpuMemKey(index, level) == "gpu_mem_" \o ToString(index) \o "_" \o level

\* the keys of the quantities a machine with these mounts and GPUs has
KeysOf(mounts, n, levels) ==
    {CpuKey(l) : l \in levels} \cup {MemoryKey(l) : l \in levels}
    \cup {DiskKey(mounts[i], l) : i \in DOMAIN mounts, l \in levels}
    \cup {GpuTempKey(g, l) : g \in 0..(n - 1), l \in levels}
    \cup {GpuMemKey(g, l) : g \in 0..(n - 1), l \in levels}

AllKeys == KeysOf(Mounts, Cardinality(GpuIndexes), Levels)

----------------------------------------------------------------------------
(* Faulty variants of the gate and of the classifier, for checking that the *)
(* properties below tell them from the real ones                            *)

\* `if now - last_time:` -- the cooldown left out of the comparison
can_alert_ungated(store, alert_key, now, cooldown) ==
    LET last_time == Get(store, alert_key, 0)
    IN  IF now - last_time # 0
        THEN [granted |-> TRUE, last_alerts |-> Put(store, alert_key, now)]
        ELSE [granted |-> FALSE, last_alerts |-> store]

\* `>` for `>=`
can_alert_strict(store, alert_key, now, cooldown) ==
    LET last_time == Get(store, alert_key, 0)
    IN  IF now - last_time > cooldown
        THEN [granted |-> TRUE, last_alerts |-> Put(store, alert_key, now)]
        ELSE [granted |-> FALSE, last_alerts |-> store]

\* the write hoisted above the `if`
can_alert_touch(store, alert_key, now, cooldown) ==
    LET last_time == Get(store, alert_key, 0)
    IN  IF now - last_time >= cooldown
        THEN [granted |-> TRUE, last_alerts |-> Put(store, alert_key, now)]
        ELSE [granted |-> FALSE, last_alerts |-> Put(store, alert_key, now)]

\* one cooldown for all keys: last_time = max(self.last_alerts.values())
can_alert_global(store, alert_key, now, cooldown) ==
    LET last_time == IF DOMAIN store = {} THEN 0
                     ELSE CHOOSE t \in {store[k] : k \in DOMAIN store} :
                              \A k \in DOMAIN store : store[k] <= t
    IN  IF now - last_time >= cooldown
        THEN [granted |-> TRUE, last_alerts |-> Put(store, alert_key, now)]
        ELSE [granted |-> FALSE, last_alerts |-> store]

\* last_time = self.last_alerts.setdefault(alert_key, 0)
can_alert_setdefault(store, alert_key, now, cooldown) ==
    LET last_time == Get(store, alert_key, 0)
    IN  IF now - last_time >= cooldown
        THEN [granted |-> TRUE, last_alerts |-> Put(store, alert_key, now)]
        ELSE [granted |-> FALSE, last_alerts |-> Put(store, alert_key, last_time)]

\* a faulty variant: one cooldown per quantity, shared by its two levels
can_alert_per_quantity(store, alert_key, now, cooldown) ==
    LET same == {k \in DOMAIN store :
                    \E q \in KeysOf(Mounts, Cardinality(GpuIndexes), {""}) :
                        {k, alert_key} \subseteq {q \o l : l \in Levels}}
        last_time == IF same = {} THEN 0
                     ELSE CHOOSE t \in {store[k] : k \in same} :
                              \A k \in same : store[k] <= t
    IN  IF now - last_time >= cooldown
        THEN [granted |-> TRUE, last_alerts |-> Put(store, alert_key, now)]
        ELSE [granted |-> FALSE, last_alerts |-> store]

\* `>` for `>=` in the critical test
get_level_strict(value, warning, critical) ==
    IF value > critical THEN "CRITICAL"
    ELSE IF value >= warning THEN "WARNING"
    ELSE NoLevel

(* Alerter._can_alert: the cooldown gate.  Returns the result and the store *)

can_alert(store, alert_key, now, cooldown) ==
    LET last_time == Get(store, alert_key, 0)
    IN  IF now - last_time >= cooldown
        THEN [granted |-> TRUE, last_alerts |-> Put(store, alert_key, now)]
        ELSE [granted |-> FALSE, last_alerts |-> store]

(* Alerter._get_level: the severity classifier *)

get_level(value, warning, critical) ==
    IF value >= critical THEN "CRITICAL"
    ELSE IF value >= warning THEN "WARNING"
    ELSE NoLevel

----------------------------------------------------------------------------
(* What the collectors can return *)

\* a quantity is named by its key without the level: KeysOf(.., .., {""});
\* on a given machine it reads one value all the time (steady), any of the
\* values (hot), or zero
Reading(q) ==
    IF q \in DOMAIN host.steady THEN {host.steady[q]}
    ELSE IF q \in host.hot THEN MetricValues
    ELSE {0}

\* SystemCollector.get_disk_info: one entry per mount, in mount order
DiskLists ==
    LET entry(i) == {[mountpoint |-> host.mounts[i], percent |-> p] :
                        p \in Reading(DiskKey(host.mounts[i], ""))}
    IN  IF Len(host.mounts) = 0 THEN {<<>>}
        ELSE IF Len(host.mounts) = 1 THEN {<<a>> : a \in entry(1)}
        ELSE {<<a, b>> : a \in entry(1), b \in entry(2)}

\* GPUCollector.get_gpu_info: the readings of one device, or {} on an NVML error
GpuInfos(i) ==
    {[index |-> i, name |-> "gpu", temperature |-> t, memory_percent |-> m] :
        t \in Reading(GpuTempKey(i, "")), m \in Reading(GpuMemKey(i, ""))} \cup {<<>>}

\* GPUCollector.get_all_gpus: [] when unavailable, else one entry per device
GpuLists ==
    IF host.device_count = 0 THEN {<<>>}
    ELSE IF host.device_count = 1 THEN {<<g>> : g \in GpuInfos(0)}
    ELSE {<<g, h>> : g \in GpuInfos(0), h \in GpuInfos(1)}

\* SystemCollector.get_all_metrics and get_all_gpus, as check_all reads them
Snapshots ==
    [cpu_percent : Reading(CpuKey("")), memory_percent : Reading(MemoryKey("")),
     disks : DiskLists, gpus : GpuLists]

\* the 'alerts' section: cooldown from the file, thresholds at their defaults
Configs ==
    [cooldown : 1..MaxCooldown,
     cpu_warning : {CpuWarningDefault}, cpu_critical : {CpuCriticalDefault},
     memory_warning : {MemoryWarningDefault}, memory_critical : {MemoryCriticalDefault},
     disk_warning : {DiskWarningDefault}, disk_critical : {DiskCriticalDefault},
     gpu_temp_warning : {GpuTempWarningDefault}, gpu_temp_critical : {GpuTempCriticalDefault},
     gpu_memory_warning : {GpuMemoryWarningDefault},
     gpu_memory_critical : {GpuMemoryCriticalDefault}]

\* the machines: which mounts and GPUs they have, and which of their
\* quantities read above zero at times (the others stay at zero): any one
\* quantity, or CPU and memory together on a machine without disks and GPUs
MountLists == {<<>>, <<Mounts[1]>>, <<Mounts[2]>>, Mounts}

BareHost == [mounts |-> <<>>, device_count |-> 0, hot |-> {CpuKey("")}, steady |-> <<>>]

\* a machine with one GPU whose readings stay low, or fail to be read
GpuHost == [BareHost EXCEPT !.device_count = 1]

Hosts ==
    {h \in [mounts : MountLists, device_count : {0, Cardinality(GpuIndexes)},
            hot : {{q} : q \in KeysOf(Mounts, Cardinality(GpuIndexes), {""})},
            steady : {<<>>}] :
        h.hot \subseteq KeysOf(h.mounts, h.device_count, {""})}
    \cup {[BareHost EXCEPT !.hot = {CpuKey(""), MemoryKey("")}]}

----------------------------------------------------------------------------
(* Alerter.__init__, ServerMonitor.__init__ and start(): the state when the *)
(* monitor thread enters run_schedule                                      *)

Boot ==
    /\ last_alerts = <<>>
    /\ pc = "loop"
    /\ resume = "none"
    /\ idx = 1
    /\ snapshot = NoSnapshot
    /\ inflight = NoMsg
    /\ lastGate = NoGate
    /\ pass = NoPass
    /\ fired = <<>>
    /\ failedAt = -1
    /\ sent = <<>>

\* main() and start() have run: the monitor thread is in run_schedule, at
\* asyncio.run(self.check_and_alert()), and no daily report is scheduled
Started ==
    /\ file = "ok"
    /\ proc = "polling"
    /\ running = TRUE
    /\ thread = "L101"
    /\ left = 0
    /\ interval = 0
    /\ daily = NoDaily

Init ==
    /\ Boot
    /\ Started
    /\ clock = 0
    /\ config \in Configs
    /\ host \in Hosts
    /\ watch \in {q \o l : q \in host.hot, l \in Levels}
    /\ probe = NoProbe
    /\ ctx = [c \in Contexts |-> NoCall]
    /\ pair = NoPair

history == <<lastGate, pass, fired, failedAt, sent>>
monitor == <<file, proc, running, thread, left, interval, daily>>
fixed == <<probe, ctx, config, host, watch, pair>>
aside == <<fixed, monitor>>

----------------------------------------------------------------------------
(* One pass of the monitor thread: run_schedule -> check_and_alert ->       *)
(* Alerter.check_all, split at the awaits                                   *)

\* check_and_alert, lines 53-55: collect, then enter check_all.
\* get_cpu_percent blocks for its one-second interval.
Collect ==
    /\ pc = "loop"
    /\ clock < MaxTime
    /\ clock' = clock + 1
    /\ snapshot' \in Snapshots
    /\ pc' = "check_cpu"
    /\ idx' = 1
    /\ pass' = [NoPass EXCEPT !.disks = snapshot'.disks # <<>>,
                              !.gpus = snapshot'.gpus # <<>>,
                              !.start = clock']
    /\ lastGate' = NoGate
    /\ sent' = <<>>
    /\ UNCHANGED <<last_alerts, resume, inflight, fired, failedAt, aside>>

\* a faulty variant: the send is started and not awaited
Alert_nowait(level, key, cat, after) ==
    IF level = NoLevel
    THEN /\ pc' = after
         /\ UNCHANGED <<last_alerts, resume, inflight, lastGate, fired, sent>>
    ELSE LET g == can_alert(last_alerts, key, clock, config.cooldown)
         IN  /\ last_alerts' = g.last_alerts
             /\ lastGate' = [key |-> key, now |-> clock,
                             had |-> key \in DOMAIN last_alerts,
                             prev |-> Get(last_alerts, key, 0),
                             granted |-> g.granted,
                             seq |-> IF lastGate.seq = 1 THEN 2 ELSE 1]
             /\ pc' = after
             /\ IF g.granted
                THEN /\ inflight' = [key |-> key, at |-> clock, cat |-> cat]
                     /\ sent' = Append(sent, [cat |-> cat, key |-> key])
                     /\ fired' = IF key # watch THEN fired
                                 ELSE IF fired = <<>> THEN <<clock>>
                                 ELSE <<fired[Len(fired)], clock>>
                     /\ UNCHANGED resume
                ELSE UNCHANGED <<inflight, fired, resume, sent>>

\* check_and_alert, lines 53 and 56-57: get_all_metrics raises (psutil), which
\* check_and_alert catches and logs
CollectFail ==
    /\ pc = "loop"
    /\ clock < MaxTime
    /\ clock' = clock + 1
    /\ pc' = "done"
    /\ pass' = [NoPass EXCEPT !.failed = "collect", !.start = clock']
    /\ lastGate' = NoGate
    /\ sent' = <<>>
    /\ UNCHANGED <<last_alerts, resume, idx, snapshot, inflight, fired, failedAt, aside>>

\* `if level and self._can_alert(key): await self.send_func(...)`, shared by
\* the five checks: after is where the check goes on without a send
Alert(level, key, cat, after) ==
    IF level = NoLevel
    THEN /\ pc' = after
         /\ UNCHANGED <<last_alerts, resume, inflight, lastGate, fired, sent>>
    ELSE LET g == can_alert(last_alerts, key, clock, config.cooldown)
         IN  /\ last_alerts' = g.last_alerts
             /\ lastGate' = [key |-> key, now |-> clock,
                             had |-> key \in DOMAIN last_alerts,
                             prev |-> Get(last_alerts, key, 0),
                             granted |-> g.granted,
                             seq |-> IF lastGate.seq = 1 THEN 2 ELSE 1]
             /\ IF g.granted
                THEN /\ inflight' = [key |-> key, at |-> clock, cat |-> cat]
                     /\ sent' = Append(sent, [cat |-> cat, key |-> key])
                     /\ fired' = IF key # watch THEN fired
                                 ELSE IF fired = <<>> THEN <<clock>>
                                 ELSE <<fired[Len(fired)], clock>>
                     /\ pc' = "send"
                     /\ resume' = after
                ELSE /\ pc' = after
                     /\ UNCHANGED <<inflight, fired, resume, sent>>

Entered(cat) == pass' = [pass EXCEPT !.evaluated = @ \cup {cat}]

\* the end of check_all and of check_and_alert
EndPass ==
    /\ pc' = "done"
    /\ snapshot' = NoSnapshot
    /\ idx' = 1
    /\ UNCHANGED <<last_alerts, resume, inflight, lastGate, fired, sent>>

\* an exception leaving check_all: caught and logged by check_and_alert,
\* main.py lines 56-57, which then returns
Caught(cat) ==
    /\ pc' = "done"
    /\ snapshot' = NoSnapshot
    /\ idx' = 1
    /\ resume' = "none"
    /\ inflight' = NoMsg
    /\ pass' = [pass EXCEPT !.evaluated = @ \cup {cat}, !.failed = cat]

check_cpu ==
    /\ pc = "check_cpu"
    /\ LET level == get_level(snapshot.cpu_percent, config.cpu_warning,
                              config.cpu_critical)
       IN  Alert(level, CpuKey(level), "cpu", "check_memory")
    /\ Entered("cpu")
    /\ UNCHANGED <<clock, idx, snapshot, failedAt, aside>>

check_memory ==
    /\ pc = "check_memory"
    /\ LET level == get_level(snapshot.memory_percent, config.memory_warning,
                              config.memory_critical)
       IN  Alert(level, MemoryKey(level), "memory", "check_disk")
    /\ Entered("memory")
    /\ UNCHANGED <<clock, idx, snapshot, failedAt, aside>>

\* a faulty variant: check_all without `if gpu_metrics:`
check_disk_unguarded ==
    /\ pc = "check_disk"
    /\ IF idx <= Len(snapshot.disks)
       THEN LET disk == snapshot.disks[idx]
                level == get_level(disk.percent, config.disk_warning, config.disk_critical)
            IN  /\ Alert(level, DiskKey(disk.mountpoint, level), "disk", "check_disk")
                /\ idx' = idx + 1
                /\ UNCHANGED snapshot
       ELSE /\ pc' = "check_gpu_temp"
            /\ idx' = 1
            /\ UNCHANGED <<snapshot, last_alerts, resume, inflight, lastGate, fired, sent>>
    /\ Entered("disk")
    /\ UNCHANGED <<clock, failedAt, aside>>

check_disk ==
    /\ pc = "check_disk"
    /\ IF idx <= Len(snapshot.disks)
       THEN LET disk == snapshot.disks[idx]
                level == get_level(disk.percent, config.disk_warning, config.disk_critical)
            IN  /\ Alert(level, DiskKey(disk.mountpoint, level), "disk", "check_disk")
                /\ idx' = idx + 1
                /\ UNCHANGED snapshot
       ELSE IF snapshot.gpus # <<>>
            THEN /\ pc' = "check_gpu_temp"
                 /\ idx' = 1
                 /\ UNCHANGED <<snapshot, last_alerts, resume, inflight, lastGate, fired,
                                sent>>
            ELSE EndPass
    /\ Entered("disk")
    /\ UNCHANGED <<clock, failedAt, aside>>

check_gpu_temp ==
    /\ pc = "check_gpu_temp"
    /\ IF idx <= Len(snapshot.gpus)
       THEN LET gpu == snapshot.gpus[idx]
                temp == Get(gpu, "temperature", 0)
                level == get_level(temp, config.gpu_temp_warning, config.gpu_temp_critical)
            IN  IF level # NoLevel /\ "index" \notin DOMAIN gpu
                THEN /\ Caught("gpu_temp")      \* gpu['index'] raises KeyError
                     /\ UNCHANGED <<last_alerts, lastGate, fired, sent>>
                ELSE /\ Alert(level, GpuTempKey(gpu.index, level), "gpu_temp",
                              "check_gpu_temp")
                     /\ idx' = idx + 1
                     /\ Entered("gpu_temp")
                     /\ UNCHANGED snapshot
       ELSE /\ pc' = "check_gpu_memory"
            /\ idx' = 1
            /\ Entered("gpu_temp")
            /\ UNCHANGED <<snapshot, last_alerts, resume, inflight, lastGate, fired, sent>>
    /\ UNCHANGED <<clock, failedAt, aside>>

check_gpu_memory ==
    /\ pc = "check_gpu_memory"
    /\ IF idx <= Len(snapshot.gpus)
       THEN LET gpu == snapshot.gpus[idx]
                mem_percent == Get(gpu, "memory_percent", 0)
                level == get_level(mem_percent, config.gpu_memory_warning,
                                   config.gpu_memory_critical)
            IN  IF level # NoLevel /\ "index" \notin DOMAIN gpu
                THEN /\ Caught("gpu_mem")       \* gpu['index'] raises KeyError
                     /\ UNCHANGED <<last_alerts, lastGate, fired, sent>>
                ELSE /\ Alert(level, GpuMemKey(gpu.index, level), "gpu_mem",
                              "check_gpu_memory")
                     /\ idx' = idx + 1
                     /\ Entered("gpu_mem")
                     /\ UNCHANGED snapshot
       ELSE /\ EndPass
            /\ Entered("gpu_mem")
    /\ UNCHANGED <<clock, failedAt, aside>>

\* TelegramBot.send_message returns: the check that awaited it goes on
SendOk ==
    /\ pc = "send"
    /\ pc' = resume
    /\ resume' = "none"
    /\ inflight' = NoMsg
    /\ UNCHANGED <<clock, last_alerts, idx, snapshot, history, aside>>

\* a faulty variant: the failed send gives its cooldown slot back
SendFail_rollback ==
    /\ pc = "send"
    /\ Caught(inflight.cat)
    /\ failedAt' = IF inflight.key = watch THEN inflight.at ELSE failedAt
    /\ last_alerts' = [k \in DOMAIN last_alerts \ {inflight.key} |-> last_alerts[k]]
    /\ UNCHANGED <<clock, lastGate, fired, sent, aside>>

\* a faulty variant: the failed send is made again
SendFail_retry ==
    /\ pc = "send"
    /\ sent' = Append(sent, sent[Len(sent)])
    /\ failedAt' = IF inflight.key = watch THEN inflight.at ELSE failedAt
    /\ UNCHANGED <<clock, last_alerts, pc, resume, idx, snapshot, inflight, lastGate, pass,
                   fired, aside>>

\* a faulty variant: the exception is not caught and ends the monitor thread
SendFail_uncaught ==
    /\ pc = "send"
    /\ Caught(inflight.cat)
    /\ failedAt' = IF inflight.key = watch THEN inflight.at ELSE failedAt
    /\ thread' = "returned"
    /\ UNCHANGED <<clock, last_alerts, lastGate, fired, sent, fixed, file, proc, running,
                   left, interval, daily>>

\* TelegramBot.send_message raises: nothing in alerter.py catches it, so it
\* leaves the check and check_all and is caught by check_and_alert
SendFail ==
    /\ pc = "send"
    /\ Caught(inflight.cat)
    /\ failedAt' = IF inflight.key = watch THEN inflight.at ELSE failedAt
    /\ UNCHANGED <<clock, last_alerts, lastGate, fired, sent, aside>>

\* the network call takes time
SendWait ==
    /\ pc = "send"
    /\ clock < MaxTime
    /\ clock' = clock + 1
    /\ UNCHANGED <<last_alerts, pc, resume, idx, snapshot, inflight, history, aside>>

\* check_and_alert and asyncio.run have returned, main.py line 101
Returned ==
    /\ pc = "done"
    /\ pc' = "loop"
    /\ lastGate' = NoGate
    /\ pass' = NoPass
    /\ sent' = <<>>
    /\ UNCHANGED <<clock, last_alerts, resume, idx, snapshot, inflight, fired, failedAt,
                   fixed>>

Return == Returned /\ UNCHANGED monitor

\* run_schedule, lines 102-106: time.sleep(1) between two passes
Sleep ==
    /\ pc = "loop"
    /\ clock < MaxTime
    /\ clock' = clock + 1
    /\ UNCHANGED <<last_alerts, pc, resume, idx, snapshot, inflight, history, aside>>

Next ==
    \/ Collect
    \/ CollectFail
    \/ check_cpu
    \/ check_memory
    \/ check_disk
    \/ check_gpu_temp
    \/ check_gpu_memory
    \/ SendOk
    \/ SendFail
    \/ SendWait
    \/ Return
    \/ Sleep

Spec == Init /\ [][Next]_vars

----------------------------------------------------------------------------
(* One or two passes on machines where several quantities breach at once,   *)
(* started late enough for the gate to grant a key that is not in the store *)

\* every category breaching, two disks breaching, two GPUs breaching
FullHost ==
    [mounts |-> <<Mounts[1]>>, device_count |-> 1,
     hot |-> KeysOf(<<Mounts[1]>>, 1, {""}), steady |-> <<>>]

TwoDiskHost ==
    [mounts |-> Mounts, device_count |-> 0,
     hot |-> {DiskKey(Mounts[1], ""), DiskKey(Mounts[2], "")}, steady |-> <<>>]

TwoGpuHost ==
    [mounts |-> <<>>, device_count |-> 2,
     hot |-> {GpuTempKey(0, ""), GpuTempKey(1, ""), GpuMemKey(0, ""), GpuMemKey(1, "")},
     steady |-> <<>>]

PassHosts == {FullHost, TwoDiskHost, TwoGpuHost}

InitPass ==
    /\ Boot
    /\ Started
    /\ pair = NoPair
    /\ clock = MaxTime - 2
    /\ config \in Configs
    /\ host \in PassHosts
    /\ watch = CpuKey("CRITICAL")
    /\ probe = NoProbe
    /\ ctx = [c \in Contexts |-> NoCall]

SpecPass == InitPass /\ [][Next]_vars

----------------------------------------------------------------------------
(* A machine whose memory reads the same breaching value in every snapshot, *)
(* while its CPU reading varies                                             *)

SteadyHosts ==
    {[h EXCEPT !.steady = [q \in {MemoryKey("")} |-> v]] :
        h \in {BareHost, GpuHost}, v \in MetricValues \ {0}}

InitSteady ==
    /\ Boot
    /\ Started
    /\ clock = 0
    /\ config \in Configs
    /\ host \in SteadyHosts
    /\ watch = MemoryKey(get_level(host.steady[MemoryKey("")], config.memory_warning,
                                   config.memory_critical))
    /\ probe = NoProbe
    /\ ctx = [c \in Contexts |-> NoCall]
    /\ pair = NoPair

SpecSteady == InitSteady /\ [][Next]_vars

----------------------------------------------------------------------------
(* Two GPUs, either of whose records may come back empty, under 'alerts'    *)
(* sections that set a GPU warning threshold to zero: Alerter.__init__      *)
(* takes the section as it is and the checks read the thresholds from it    *)
(* with self.config.get, so any number in the file is a threshold           *)

GpuFaultConfigs ==
    {[c EXCEPT !.gpu_temp_warning = t, !.gpu_memory_warning = m] :
        c \in Configs,
        t \in {0, GpuTempWarningDefault},
        m \in {0, GpuMemoryWarningDefault}}

InitGpuFault ==
    /\ Boot
    /\ Started
    /\ clock = MaxTime - 2
    /\ config \in GpuFaultConfigs
    /\ host = TwoGpuHost
    /\ watch = GpuTempKey(1, "CRITICAL")
    /\ probe = NoProbe
    /\ ctx = [c \in Contexts |-> NoCall]
    /\ pair = NoPair

SpecGpuFault == InitGpuFault /\ [][Next]_vars

----------------------------------------------------------------------------
(* The machines of SpecSteady, memory at one breaching level in every       *)
(* snapshot, with the history following a CPU key: a failed CPU send ends   *)
(* the pass before the memory check                                         *)

InitHandover ==
    /\ Boot
    /\ Started
    /\ clock = 0
    /\ config \in Configs
    /\ host \in SteadyHosts
    /\ watch \in {CpuKey(l) : l \in Levels}
    /\ probe = NoProbe
    /\ ctx = [c \in Contexts |-> NoCall]
    /\ pair = NoPair

SpecHandover == InitHandover /\ [][Next]_vars

----------------------------------------------------------------------------
(* main.py from the start of main(): load_config, ServerMonitor.__init__,   *)
(* start(), the monitor thread in run_schedule with the daily report job    *)
(* run by schedule.run_pending(), and the signal handler.                  *)

\* "empty": safe_load returns None; "no_telegram": a mapping without that section
Files == {"ok", "missing", "unparsable", "empty", "no_telegram"}
Intervals == {0, 1}

MonitorHosts == {BareHost, GpuHost}

InitMonitor ==
    /\ Boot
    /\ clock = 0
    /\ file \in Files
    /\ proc = "load_config"
    /\ running = FALSE
    /\ thread = "none"
    /\ left = 0
    /\ interval \in Intervals
    /\ daily \in {[NoDaily EXCEPT !.enabled = e] : e \in BOOLEAN}
    /\ config \in Configs
    /\ host \in MonitorHosts
    /\ watch = CpuKey("WARNING")
    /\ probe = NoProbe
    /\ ctx = [c \in Contexts |-> NoCall]
    /\ pair = NoPair

passVars == <<clock, last_alerts, pc, resume, idx, snapshot, inflight, history>>

\* load_config, lines 21-29: sys.exit(1) when the file is missing; a
\* yaml.YAMLError from safe_load is caught nowhere and ends the process
load_config ==
    /\ proc = "load_config"
    /\ proc' = IF file \in {"missing", "unparsable"} THEN "exited" ELSE "init"
    /\ UNCHANGED <<passVars, fixed, file, running, thread, left, interval, daily>>

\* a faulty variant: the missing telegram section is tolerated
Construct_lenient ==
    /\ proc = "init"
    /\ proc' = "start"
    /\ running' = FALSE
    /\ UNCHANGED <<passVars, fixed, file, thread, left, interval, daily>>

\* ServerMonitor.__init__, lines 33-49: config.get raises AttributeError on
\* None and config['telegram'] raises KeyError when the section is missing;
\* neither is caught anywhere
Construct ==
    /\ proc = "init"
    /\ proc' = IF file \in {"empty", "no_telegram"} THEN "exited" ELSE "start"
    /\ running' = FALSE
    /\ UNCHANGED <<passVars, fixed, file, thread, left, interval, daily>>

\* start, lines 108-118: the monitor thread is started, then the bot polls
start ==
    /\ proc = "start"
    /\ running' = TRUE
    /\ thread' = "L99"
    /\ proc' = "polling"
    /\ UNCHANGED <<passVars, fixed, file, left, interval, daily>>

\* signal_handler, lines 129-131, and stop, lines 120-122
stop ==
    /\ proc = "polling"
    /\ running' = FALSE
    /\ proc' = "stopping"
    /\ UNCHANGED <<passVars, fixed, file, thread, left, interval, daily>>

\* signal_handler, line 132: sys.exit(0); the daemon thread ends with the process
Exit ==
    /\ proc = "stopping"
    /\ proc' = "exited"
    /\ UNCHANGED <<passVars, fixed, file, running, thread, left, interval, daily>>

alive == proc \in {"polling", "stopping"}

\* line 99: while self.running
While ==
    /\ alive
    /\ thread = "L99"
    /\ thread' = IF running THEN "L100" ELSE "returned"
    /\ UNCHANGED <<passVars, fixed, file, proc, running, left, interval, daily>>

AfterPending == IF thread = "L100" THEN "L101" ELSE "L106"

\* lines 100 and 105: schedule.run_pending() with no job due
RunPending ==
    /\ alive
    /\ thread \in {"L100", "L105"}
    /\ daily.pc = "idle"
    /\ thread' = AfterPending
    /\ UNCHANGED <<passVars, fixed, file, proc, running, left, interval, daily>>

\* a faulty variant: the daily job is run by a thread of its own
DailyDue_own_thread ==
    /\ alive
    /\ thread # "none"
    /\ daily.enabled
    /\ daily.pc = "idle"
    /\ daily' = [daily EXCEPT !.pc = "collect", !.sent = FALSE]
    /\ UNCHANGED <<passVars, fixed, file, proc, running, thread, left, interval>>

\* lines 100 and 105 with schedule_jobs, lines 88-95: the daily job is due
\* and run_pending calls asyncio.run(self.send_daily_report())
DailyDue ==
    /\ alive
    /\ thread \in {"L100", "L105"}
    /\ daily.enabled
    /\ daily.pc = "idle"
    /\ daily' = [daily EXCEPT !.pc = "collect", !.sent = FALSE]
    /\ UNCHANGED <<passVars, fixed, file, proc, running, thread, left, interval>>

\* send_daily_report, lines 61-83: collect, compose the text and call
\* bot.send_message; gpu['index'] raises KeyError for a GPU whose record is
\* {}, which line 85 catches
DailyCollect ==
    /\ alive
    /\ daily.pc = "collect"
    /\ clock < MaxTime
    /\ clock' = clock + 1
    /\ \E gpus \in GpuLists :
           daily' = IF \E i \in DOMAIN gpus : "index" \notin DOMAIN gpus[i]
                    THEN [daily EXCEPT !.pc = "done"]
                    ELSE [daily EXCEPT !.pc = "send", !.sent = TRUE]
    /\ UNCHANGED <<last_alerts, pc, resume, idx, snapshot, inflight, history, fixed, file,
                   proc, running, thread, left, interval>>

\* send_daily_report, lines 61 and 85-86: get_all_metrics raises
DailyCollectFail ==
    /\ alive
    /\ daily.pc = "collect"
    /\ clock < MaxTime
    /\ clock' = clock + 1
    /\ daily' = [daily EXCEPT !.pc = "done"]
    /\ UNCHANGED <<last_alerts, pc, resume, idx, snapshot, inflight, history, fixed, file,
                   proc, running, thread, left, interval>>

\* line 83 returns, line 84
DailySendOk ==
    /\ alive
    /\ daily.pc = "send"
    /\ daily' = [daily EXCEPT !.pc = "done"]
    /\ UNCHANGED <<passVars, fixed, file, proc, running, thread, left, interval>>

\* line 83 raises, lines 85-86
DailySendFail ==
    /\ alive
    /\ daily.pc = "send"
    /\ daily' = [daily EXCEPT !.pc = "done"]
    /\ UNCHANGED <<passVars, fixed, file, proc, running, thread, left, interval>>

\* asyncio.run and run_pending return
DailyReturn ==
    /\ alive
    /\ daily.pc = "done"
    /\ daily' = [daily EXCEPT !.pc = "idle"]
    /\ thread' = AfterPending
    /\ UNCHANGED <<passVars, fixed, file, proc, running, left, interval>>

\* line 101: asyncio.run(self.check_and_alert())
CheckAndAlert == alive /\ thread = "L101" /\ Collect

CheckAndAlertFail == alive /\ thread = "L101" /\ CollectFail

PassStep ==
    /\ alive
    /\ \/ check_cpu
       \/ check_memory
       \/ check_disk
       \/ check_gpu_temp
       \/ check_gpu_memory
       \/ SendOk
       \/ SendFail
       \/ SendWait

\* line 101 returns; line 102 starts the for loop
PassReturn ==
    /\ alive
    /\ thread = "L101"
    /\ Returned
    /\ thread' = "L102"
    /\ left' = interval
    /\ UNCHANGED <<file, proc, running, interval, daily>>

\* lines 102-104: the next iteration, if any, and `if not self.running: break`
ForStep ==
    /\ alive
    /\ thread = "L102"
    /\ IF left = 0 \/ ~running
       THEN thread' = "L99" /\ UNCHANGED left
       ELSE thread' = "L105" /\ left' = left - 1
    /\ UNCHANGED <<passVars, fixed, file, proc, running, interval, daily>>

\* line 106: time.sleep(1)
SleepStep ==
    /\ alive
    /\ thread = "L106"
    /\ clock < MaxTime
    /\ clock' = clock + 1
    /\ thread' = "L102"
    /\ UNCHANGED <<last_alerts, pc, resume, idx, snapshot, inflight, history, fixed, file,
                   proc, running, left, interval, daily>>

ThreadNext ==
    \/ While
    \/ RunPending
    \/ DailyDue
    \/ DailyCollect
    \/ DailyCollectFail
    \/ DailySendOk
    \/ DailySendFail
    \/ DailyReturn
    \/ CheckAndAlert
    \/ CheckAndAlertFail
    \/ PassStep
    \/ PassReturn
    \/ ForStep
    \/ SleepStep

NextMonitor ==
    \/ load_config
    \/ Construct
    \/ start
    \/ stop
    \/ Exit
    \/ ThreadNext

SpecMonitor == InitMonitor /\ [][NextMonitor]_vars

\* the monitor thread is scheduled as long as the process lives
SpecMonitorLive == SpecMonitor /\ WF_vars(ThreadNext)

----------------------------------------------------------------------------
(* The alert keys on their own: the f-strings of the five checks applied to *)
(* two triples of category, sub-identifier (mountpoint or GPU index) and    *)
(* level                                                                    *)

\* mountpoints, among them ones that contain the separator and a level name
MountStrings == {"", "/", "/data", "/data_WARNING", "_CRITICAL", "temp_0"}
GpuNumbers == {0, 1, 10}

Triples ==
    {[NoTriple EXCEPT !.cat = c, !.level = l] : c \in {"cpu", "memory"}, l \in Levels}
    \cup {[NoTriple EXCEPT !.cat = "disk", !.mountpoint = m, !.level = l] :
              m \in MountStrings, l \in Levels}
    \cup {[NoTriple EXCEPT !.cat = c, !.index = g, !.level = l] :
              c \in {"gpu_temp", "gpu_mem"}, g \in GpuNumbers, l \in Levels}

\* the key a check builds, lines 37, 49, 62, 76 and 90
AlertKey(t) ==
    CASE t.cat = "cpu" -> CpuKey(t.level)
      [] t.cat = "memory" -> MemoryKey(t.level)
      [] t.cat = "disk" -> DiskKey(t.mountpoint, t.level)
      [] t.cat = "gpu_temp" -> GpuTempKey(t.index, t.level)
      [] t.cat = "gpu_mem" -> GpuMemKey(t.index, t.level)

InitKeys ==
    /\ Boot
    /\ Started
    /\ clock = 0
    /\ config \in {c \in Configs : c.cooldown = 1}
    /\ host = BareHost
    /\ watch = CpuKey("CRITICAL")
    /\ probe = NoProbe
    /\ ctx = [c \in Contexts |-> NoCall]
    /\ pair \in [a : Triples, b : Triples, ka : {""}, kb : {""}]

BuildKeys ==
    /\ pair.ka = ""
    /\ pair' = [pair EXCEPT !.ka = AlertKey(pair.a), !.kb = AlertKey(pair.b)]
    /\ UNCHANGED <<passVars, probe, ctx, config, host, watch, monitor>>

NextKeys == BuildKeys

SpecKeys == InitKeys /\ [][NextKeys]_vars

----------------------------------------------------------------------------
(* Alerter._get_level on its own: any value against any two thresholds     *)

InitClassify ==
    /\ Boot
    /\ Started
    /\ pair = NoPair
    /\ clock = 0
    /\ config \in {c \in Configs : c.cooldown = 1}
    /\ host = BareHost
    /\ watch = CpuKey("CRITICAL")
    /\ probe \in [value : 0..MaxValue, warning : 0..MaxValue, critical : 0..MaxValue,
                  level : {"unset"}]
    /\ ctx = [c \in Contexts |-> NoCall]

Classify ==
    /\ probe.level = "unset"
    /\ probe' = [probe EXCEPT !.level = get_level(probe.value, probe.warning,
                                                  probe.critical)]
    /\ UNCHANGED <<clock, config, last_alerts, pc, resume, idx, snapshot, host, inflight,
                   history, watch, ctx, monitor, pair>>

NextClassify == Classify

SpecClassify == InitClassify /\ [][NextClassify]_vars

----------------------------------------------------------------------------
(* Alerter._can_alert, statement by statement, entered by callers on        *)
(* different threads.  The method takes no lock, and CPython may switch     *)
(* threads between the statements.                                          *)

RaceKeys == {CpuKey(l) : l \in Levels}

InitRace ==
    /\ Boot
    /\ Started
    /\ pair = NoPair
    /\ clock = 0
    /\ config \in Configs
    /\ host = BareHost
    /\ watch = CpuKey("CRITICAL")
    /\ probe = NoProbe
    /\ ctx = [c \in Contexts |-> NoCall]

raceFrame == <<config, pc, resume, idx, snapshot, host, inflight, history, watch, probe,
               monitor, pair>>

\* line 18: now = time.time()
RaceCall(c, key) ==
    /\ ctx[c].pc = "out"
    /\ ctx' = [ctx EXCEPT ![c] = [pc |-> "L19", key |-> key, now |-> clock,
                                  last_time |-> 0, granted |-> FALSE, done |-> FALSE]]
    /\ UNCHANGED <<clock, last_alerts, raceFrame>>

\* line 19: last_time = self.last_alerts.get(alert_key, 0)
RaceRead(c) ==
    /\ ctx[c].pc = "L19"
    /\ ctx' = [ctx EXCEPT ![c].pc = "L20",
                          ![c].last_time = Get(last_alerts, ctx[c].key, 0)]
    /\ UNCHANGED <<clock, last_alerts, raceFrame>>

\* line 20: if now - last_time >= self.cooldown, else line 23: return False
RaceTest(c) ==
    /\ ctx[c].pc = "L20"
    /\ ctx' = IF ctx[c].now - ctx[c].last_time >= config.cooldown
              THEN [ctx EXCEPT ![c].pc = "L21"]
              ELSE [ctx EXCEPT ![c].pc = "out", ![c].granted = FALSE, ![c].done = TRUE]
    /\ UNCHANGED <<clock, last_alerts, raceFrame>>

\* lines 21-22: self.last_alerts[alert_key] = now; return True
RaceWrite(c) ==
    /\ ctx[c].pc = "L21"
    /\ last_alerts' = Put(last_alerts, ctx[c].key, ctx[c].now)
    /\ ctx' = [ctx EXCEPT ![c].pc = "out", ![c].granted = TRUE, ![c].done = TRUE]
    /\ UNCHANGED <<clock, raceFrame>>

RaceTick ==
    /\ clock < MaxTime
    /\ clock' = clock + 1
    /\ UNCHANGED <<last_alerts, ctx, raceFrame>>

NextRace ==
    \/ \E c \in Contexts, key \in RaceKeys : RaceCall(c, key)
    \/ \E c \in Contexts : RaceRead(c)
    \/ \E c \in Contexts : RaceTest(c)
    \/ \E c \in Contexts : RaceWrite(c)
    \/ RaceTick

SpecRace == InitRace /\ [][NextRace]_vars

----------------------------------------------------------------------------
(* The properties *)

gateCalled == lastGate.seq # 0

\* C1: any two send calls for the same key are at least cooldown seconds of
\* clock time apart (fired holds the times of the last two for the watched key)
C1_SendsApart ==
    Len(fired) = 2 => fired[2] - fired[1] >= config.cooldown

C1_Witness ==
    /\ Len(fired) = 2
    /\ pc = "send"
    /\ inflight.key = watch

\* C2: a gate call for a key that is not in the store returns true and
\* records now, whatever now is
C2_AbsentKeyGranted ==
    (gateCalled /\ ~lastGate.had) =>
        /\ lastGate.granted
        /\ Get(last_alerts, lastGate.key, -1) = lastGate.now

\* C3: after a grant of a key at now1, the next gate call for it, at now2,
\* returns true iff now2 - now1 >= cooldown (equality included)
C3_NextCallIffCooldown ==
    (gateCalled /\ lastGate.key = watch) =>
        /\ (lastGate.granted /\ Len(fired) = 2)
               => lastGate.now - fired[1] >= config.cooldown
        /\ (~lastGate.granted /\ Len(fired) >= 1)
               => lastGate.now - fired[Len(fired)] < config.cooldown

C3_Witness ==
    /\ gateCalled
    /\ lastGate.key = watch
    /\ lastGate.granted
    /\ Len(fired) = 2
    /\ lastGate.now - fired[1] = config.cooldown

\* C4: a gate call that returns false leaves the store as it was, one that
\* returns true sets the entry of its key to now and nothing else, and the
\* store changes in no other step
C4_GateFrame ==
    [][/\ (lastGate'.seq # 0 /\ lastGate'.seq # lastGate.seq) =>
              IF lastGate'.granted
              THEN last_alerts' = Put(last_alerts, lastGate'.key, lastGate'.now)
              ELSE last_alerts' = last_alerts
       /\ last_alerts' # last_alerts =>
              (lastGate'.seq # 0 /\ lastGate'.seq # lastGate.seq /\ lastGate'.granted)
      ]_vars

C4_Witness ==
    /\ gateCalled
    /\ ~lastGate.granted
    /\ Cardinality(DOMAIN last_alerts) >= 2

\* C5: what a gate call on a key returns and stores depends on the entry of
\* that key alone, and it leaves the entries of all other keys as they were:
\* with the calls on the other keys left out (a store holding only k) the
\* call on k returns and stores the same.  Every store the program reaches
\* is the store of a state between two passes, where this is evaluated.
Only(store, k) == [x \in DOMAIN store \cap {k} |-> store[x]]

C5_KeysIndependent ==
    pc = "loop" =>
        \A k \in AllKeys, now \in Time :
            LET full == can_alert(last_alerts, k, now, config.cooldown)
                alone == can_alert(Only(last_alerts, k), k, now, config.cooldown)
            IN  /\ full.granted = alone.granted
                /\ Get(full.last_alerts, k, -1) = Get(alone.last_alerts, k, -1)
                /\ \A k2 \in (DOMAIN last_alerts \cup DOMAIN full.last_alerts) \ {k} :
                       Get(full.last_alerts, k2, -1) = Get(last_alerts, k2, -1)

C5_Witness ==
    /\ pc = "loop"
    /\ \E k1, k2 \in DOMAIN last_alerts :
           /\ last_alerts[k1] + config.cooldown <= clock
           /\ last_alerts[k2] + config.cooldown > clock

\* C6: a key is in the store iff an alert of that key has fired, and the
\* value stored for a key never decreases
C6_StoreInvariant ==
    /\ []((watch \in DOMAIN last_alerts) <=> (fired # <<>>))
    /\ [][\A k \in DOMAIN last_alerts :
              k \in DOMAIN last_alerts' /\ last_alerts'[k] >= last_alerts[k]]_vars

C6_Witness ==
    /\ Len(fired) = 2
    /\ last_alerts[watch] = fired[2]
    /\ fired[2] > fired[1]

\* C7: of two callers on different threads that call the gate for the same
\* key within one cooldown window, at most one is granted
C7_AtMostOneGrant ==
    \A c1, c2 \in Contexts :
        (/\ c1 # c2
         /\ ctx[c1].done /\ ctx[c1].granted
         /\ ctx[c2].done /\ ctx[c2].granted
         /\ ctx[c1].key = ctx[c2].key
         /\ ctx[c1].now <= ctx[c2].now)
            => ctx[c2].now - ctx[c1].now >= config.cooldown

\* C8: with critical >= warning the classifier returns CRITICAL iff
\* value >= critical, WARNING iff warning <= value < critical, None iff
\* value < warning, and the store is as it was
C8_Classifier ==
    (probe.level # "unset" /\ probe.critical >= probe.warning) =>
        /\ probe.level \in {"CRITICAL", "WARNING", NoLevel}
        /\ probe.level = "CRITICAL" <=> probe.value >= probe.critical
        /\ probe.level = "WARNING" <=>
               (probe.warning <= probe.value /\ probe.value < probe.critical)
        /\ probe.level = NoLevel <=> probe.value < probe.warning
        /\ last_alerts = <<>>

C8_Witness ==
    /\ probe.level = "CRITICAL"
    /\ probe.value = probe.critical
    /\ probe.critical > probe.warning

\* C9: when the send of one category fails, the later categories of
\* check_all (CPU, memory, disk, GPU temperature, GPU memory; the GPU ones
\* when there are GPUs) are still evaluated in that pass
LaterCategories(cat) ==
    CASE cat = "cpu" -> {"memory", "disk", "gpu_temp", "gpu_mem"}
      [] cat = "memory" -> {"disk", "gpu_temp", "gpu_mem"}
      [] cat = "disk" -> {"gpu_temp", "gpu_mem"}
      [] cat = "gpu_temp" -> {"gpu_mem"}
      [] OTHER -> {}

C9_LaterCategoriesStillRun ==
    (pc = "done" /\ pass.failed # "none") =>
        \A c \in LaterCategories(pass.failed) :
            (c \in {"gpu_temp", "gpu_mem"} => pass.gpus) => c \in pass.evaluated

\* C10: after a failed send the entry the gate wrote for the key stays, and
\* a later gate call for the key less than cooldown seconds after the failed
\* attempt (the time the gate granted it) is not granted
C10_FailedSendKeepsSlot ==
    failedAt # -1 =>
        /\ watch \in DOMAIN last_alerts
        /\ last_alerts[watch] >= failedAt
        /\ (/\ gateCalled
            /\ lastGate.key = watch
            /\ lastGate.now > failedAt
            /\ lastGate.now - failedAt < config.cooldown) => ~lastGate.granted

C10_Witness ==
    /\ failedAt # -1
    /\ last_alerts[watch] = failedAt
    /\ gateCalled
    /\ lastGate.key = watch
    /\ lastGate.now > failedAt
    /\ lastGate.now - failedAt < config.cooldown
    /\ ~lastGate.granted

\* C11: within a pass the categories are entered in the order CPU, memory,
\* disk, GPU temperature, GPU memory; the sends of the pass are in that
\* order; a check runs and a send is started only when no send is being
\* awaited, so at most one send is in flight, and it is the last one made
CategoryOrder == <<"cpu", "memory", "disk", "gpu_temp", "gpu_mem">>

Rank(cat) == CHOOSE i \in DOMAIN CategoryOrder : CategoryOrder[i] = cat

CheckPcs == {"check_cpu", "check_memory", "check_disk", "check_gpu_temp",
             "check_gpu_memory"}

C11_OrderedOneAtATime ==
    /\ [](/\ \E n \in 0..Len(CategoryOrder) :
                 pass.evaluated = {CategoryOrder[i] : i \in 1..n}
          /\ \A i, j \in DOMAIN sent :
                 i < j => Rank(sent[i].cat) <= Rank(sent[j].cat)
          /\ pc \in CheckPcs => inflight = NoMsg
          /\ inflight # NoMsg =>
                 /\ pc = "send"
                 /\ sent # <<>>
                 /\ sent[Len(sent)].key = inflight.key)
    /\ [][/\ Len(sent') > Len(sent) => inflight = NoMsg
          /\ (pass'.evaluated # pass.evaluated /\ pass'.evaluated # {}) =>
                 /\ pass.evaluated \subseteq pass'.evaluated
                 /\ \A c \in pass'.evaluated \ pass.evaluated, d \in pass.evaluated :
                        Rank(d) < Rank(c)]_vars

C11_Witness ==
    /\ pc = "send"
    /\ [i \in DOMAIN sent |-> sent[i].cat] = CategoryOrder

\* C12: a pass on a snapshot with no disks and no GPUs makes no disk or GPU
\* send, adds no disk or GPU key to the store and gets no error from the
\* disk and GPU checks; with no GPUs the GPU checks are not entered, while
\* CPU, memory and disk are (in a pass that no failed send has ended)
ListCategories == {"disk", "gpu_temp", "gpu_mem"}

C12_EmptyListsDoNothing ==
    /\ []((pc # "loop" /\ ~pass.disks /\ ~pass.gpus) =>
              /\ \A i \in DOMAIN sent : sent[i].cat \notin ListCategories
              /\ inflight.cat \notin ListCategories
              /\ pass.failed \notin ListCategories)
    /\ []((pc # "loop" /\ ~pass.gpus) =>
              /\ pass.evaluated \cap {"gpu_temp", "gpu_mem"} = {}
              /\ (pc = "done" /\ pass.failed = "none") =>
                     pass.evaluated = {"cpu", "memory", "disk"})
    /\ [][(pc # "loop" /\ ~pass.disks /\ ~pass.gpus) =>
              \A k \in DOMAIN last_alerts' \ DOMAIN last_alerts :
                  k \in KeysOf(<<>>, 0, Levels)]_vars

C12_Witness ==
    /\ pc = "done"
    /\ ~pass.disks
    /\ ~pass.gpus
    /\ pass.failed = "none"
    /\ pass.evaluated = {"cpu", "memory", "disk"}
    /\ Len(sent) = 2

\* C13: in a pass that started with an empty store and in which every send
\* so far has succeeded, when the loop over the disks (the GPUs) ends, the
\* disk (GPU temperature, GPU memory) sends of the pass are exactly one for
\* each reading at or above its warning threshold, in list order, under the
\* key of that item and of its own level
SendKeys(cat) ==
    LET of(m) == m.cat = cat
        s == SelectSeq(sent, of)
    IN  [i \in DOMAIN s |-> s[i].key]

DiskLevel(disk) == get_level(disk.percent, config.disk_warning, config.disk_critical)

GpuTempLevel(gpu) ==
    get_level(Get(gpu, "temperature", 0), config.gpu_temp_warning, config.gpu_temp_critical)

GpuMemLevel(gpu) ==
    get_level(Get(gpu, "memory_percent", 0), config.gpu_memory_warning,
              config.gpu_memory_critical)

BreachingDiskKeys ==
    LET breaches(d) == DiskLevel(d) # NoLevel
        s == SelectSeq(snapshot.disks, breaches)
    IN  [i \in DOMAIN s |-> DiskKey(s[i].mountpoint, DiskLevel(s[i]))]

BreachingGpuTempKeys ==
    LET breaches(g) == GpuTempLevel(g) # NoLevel
        s == SelectSeq(snapshot.gpus, breaches)
    IN  [i \in DOMAIN s |-> GpuTempKey(s[i].index, GpuTempLevel(s[i]))]

BreachingGpuMemKeys ==
    LET breaches(g) == GpuMemLevel(g) # NoLevel
        s == SelectSeq(snapshot.gpus, breaches)
    IN  [i \in DOMAIN s |-> GpuMemKey(s[i].index, GpuMemLevel(s[i]))]

storeWasEmpty == DOMAIN last_alerts = {sent[i].key : i \in DOMAIN sent}

C13_EachBreachingItemOnce ==
    /\ (pc = "check_disk" /\ idx = Len(snapshot.disks) + 1 /\ storeWasEmpty) =>
           SendKeys("disk") = BreachingDiskKeys
    /\ (pc = "check_gpu_temp" /\ idx = Len(snapshot.gpus) + 1 /\ storeWasEmpty) =>
           SendKeys("gpu_temp") = BreachingGpuTempKeys
    /\ (pc = "check_gpu_memory" /\ idx = Len(snapshot.gpus) + 1 /\ storeWasEmpty) =>
           SendKeys("gpu_mem") = BreachingGpuMemKeys

\* C14: every run of the daily report job makes its send call, whatever the
\* store holds and whatever was collected, and no step of the job changes
\* the store
C14_DailyAlwaysSends ==
    /\ [](daily.pc = "done" => daily.sent)
    /\ [][daily.pc # "idle" => last_alerts' = last_alerts]_vars

\* C15: an exception raised in a pass (by the collectors, by a check, by a
\* send) ends that pass only: check_and_alert has returned and the monitor
\* thread is still at line 101; the thread leaves run_schedule only when
\* running is false and the process exits only on a configuration failure
\* or after stop(); after the failed pass the thread goes on to the for
\* loop, and from there, while running is true and time remains, a new pass
\* starts
C15_FaultsContained ==
    /\ [](pass.failed # "none" => (pc = "done" /\ thread = "L101"))
    /\ [](thread = "returned" => ~running)
    /\ [](proc = "exited" => (file # "ok" \/ ~running))
    /\ (pass.failed # "none") ~> (thread = "L102" \/ ~alive)
    /\ (thread = "L102") ~> (pc # "loop" \/ ~running \/ ~alive \/ clock = MaxTime)

C15_Witness ==
    /\ failedAt # -1
    /\ pc = "check_cpu"
    /\ clock > failedAt
    /\ running
    /\ alive

\* C16: a gate call that returns true starts, in the same step of the
\* check, one send call for its key, and no gate call is made until that
\* send has ended; a gate call that returns false starts none; a send call
\* is started only by the gate call that granted it; when a send ends,
\* failed or not, it is not made again; no key is sent twice in a pass
gateStep == lastGate'.seq # 0 /\ lastGate'.seq # lastGate.seq

C16_OneSendPerGrant ==
    /\ [](\A i, j \in DOMAIN sent : i # j => sent[i].key # sent[j].key)
    /\ [][/\ gateStep => (pc # "send" /\ inflight = NoMsg)
          /\ (gateStep /\ lastGate'.granted) =>
                 /\ pc' = "send"
                 /\ inflight'.key = lastGate'.key
                 /\ inflight'.at = lastGate'.now
                 /\ sent' = Append(sent, [cat |-> inflight'.cat, key |-> lastGate'.key])
          /\ (gateStep /\ ~lastGate'.granted) =>
                 (sent' = sent /\ inflight' = inflight /\ pc' # "send")
          /\ Len(sent') > Len(sent) => (gateStep /\ lastGate'.granted)
          /\ (pc = "send" /\ pc' # "send") => (inflight' = NoMsg /\ sent' = sent)
          /\ (pc = "send" /\ pc' = "send") => (inflight' = inflight /\ sent' = sent)
         ]_vars

C16_Witness ==
    /\ failedAt # -1
    /\ pc = "send"
    /\ lastGate.granted
    /\ inflight.key = watch
    /\ inflight.at > failedAt
    /\ Len(sent) = 1

\* C17: the key of a triple is a function of the triple, and two triples
\* that differ in category, in mountpoint (disks), in GPU index (GPUs) or
\* in level have different keys
C17_KeysInjective ==
    pair.ka # "" =>
        /\ pair.ka = AlertKey(pair.a)
        /\ pair.kb = AlertKey(pair.b)
        /\ (pair.a = pair.b) => (pair.ka = pair.kb)
        /\ (pair.a # pair.b) => (pair.ka # pair.kb)

C17_Witness ==
    /\ pair.ka # ""
    /\ pair.a.cat = "disk"
    /\ pair.b.cat = "disk"
    /\ pair.a.mountpoint = "/data_WARNING"
    /\ pair.b.mountpoint = "/data"
    /\ pair.a.level # pair.b.level
    /\ pair.ka # pair.kb

\* C18: when the configuration cannot be loaded (file missing, not
\* parsable, or without the telegram section) the process ends before the
\* monitor thread exists: no pass, no gate call, no send and no daily report
\* happens in such an execution, and nothing happens after the process ended
passStarted ==
    \/ pc # "loop"
    \/ gateCalled
    \/ inflight # NoMsg
    \/ sent # <<>>
    \/ last_alerts # <<>>
    \/ pass # NoPass
    \/ daily.pc # "idle"

C18_ConfigErrorStopsBeforePass ==
    /\ [](file # "ok" =>
              /\ ~passStarted
              /\ thread = "none"
              /\ ~running
              /\ proc \in {"load_config", "init", "exited"})
    /\ [](passStarted => (file = "ok" /\ thread # "none"))
    /\ [][proc # "exited"]_vars

C18_Witness ==
    /\ file = "no_telegram"
    /\ proc = "exited"
    /\ thread = "none"

\* C19: a pass and a run of the daily report are never in progress together
\* and a pass starts only when none is in progress: the pass runs while the
\* monitor thread is at line 101, the daily report while it is inside
\* run_pending at line 100 or 105, and each is run to its end there
passInProgress == pc # "loop"

dailyInProgress == daily.pc # "idle"

C19_NoOverlap ==
    /\ [](~(passInProgress /\ dailyInProgress))
    /\ [](passInProgress => thread = "L101")
    /\ [](dailyInProgress => thread \in {"L100", "L105"})
    /\ [][/\ (~passInProgress /\ passInProgress') => ~dailyInProgress
          /\ (passInProgress /\ passInProgress') => (thread' = thread /\ daily' = daily)
          /\ (dailyInProgress /\ dailyInProgress') =>
                 (thread' = thread /\ pc' = pc /\ pass' = pass)
          /\ pass'.evaluated = {} \/ pass.evaluated \subseteq pass'.evaluated]_vars

C19_Witness ==
    /\ dailyInProgress
    /\ daily.pc = "send"
    /\ last_alerts # <<>>
    /\ thread = "L105"

\* C20: on a machine where the watched quantity reads one breaching level
\* in every snapshot, a pass that has collected its snapshot and started
\* cooldown seconds or more after the last send for the watched key makes a
\* send for that key
C20_DueAlertIsSent ==
    (/\ pc = "done"
     /\ pass.failed # "collect"
     /\ fired # <<>>
     /\ pass.start - fired[Len(fired)] >= config.cooldown) =>
        \E i \in DOMAIN sent : sent[i].key = watch

\* C21: the step of a GPU check that meets an empty record (a GPU whose
\* collection failed, inside a non-empty list) makes no gate call and no
\* send, leaves the store as it was, raises nothing and goes on to the next
\* GPU of the list, whatever the thresholds are
emptyRecordNext ==
    /\ pc \in {"check_gpu_temp", "check_gpu_memory"}
    /\ idx <= Len(snapshot.gpus)
    /\ snapshot.gpus[idx] = <<>>

C21_EmptyRecordIsNoData ==
    [][emptyRecordNext =>
          /\ pc' = pc
          /\ idx' = idx + 1
          /\ snapshot' = snapshot
          /\ pass'.failed = "none"
          /\ sent' = sent
          /\ lastGate' = lastGate
          /\ last_alerts' = last_alerts
          /\ inflight' = NoMsg]_vars

\* C22: the two levels of one quantity have cooldowns of their own.  A gate
\* call for one level whose own entry is absent or cooldown seconds old is
\* granted whatever the entry of the other level is, so an escalation inside
\* the window of the Warning alert fires the Critical alert; a gate call for
\* one level leaves the entry of the other level as it was; and of any three
\* alerts of one quantity the first and the last are at least cooldown
\* seconds apart, so a window holds at most two
OtherLevel(key) ==
    CHOOSE k \in AllKeys :
        /\ k # key
        /\ \E q \in KeysOf(Mounts, Cardinality(GpuIndexes), {""}) :
               {k, key} \subseteq {q \o l : l \in Levels}

C22_LevelsIndependent ==
    /\ []((/\ gateCalled
           /\ lastGate.key = watch
           /\ OtherLevel(watch) \in DOMAIN last_alerts
           /\ (~lastGate.had \/ lastGate.now - lastGate.prev >= config.cooldown))
              => lastGate.granted)
    /\ []((Len(fired) = 2 /\ OtherLevel(watch) \in DOMAIN last_alerts) =>
              LET t == last_alerts[OtherLevel(watch)]
                  first == IF t < fired[1] THEN t ELSE fired[1]
                  last == IF t > fired[2] THEN t ELSE fired[2]
              IN  last - first >= config.cooldown)
    /\ [][(gateStep /\ lastGate'.key = watch) =>
              Get(last_alerts', OtherLevel(watch), -1)
                  = Get(last_alerts, OtherLevel(watch), -1)]_vars

C22_Witness ==
    /\ pc = "send"
    /\ gateCalled
    /\ lastGate.key = watch
    /\ lastGate.granted
    /\ ~lastGate.had
    /\ \E q \in host.hot : watch = q \o "CRITICAL"
    /\ OtherLevel(watch) \in DOMAIN last_alerts
    /\ lastGate.now - last_alerts[OtherLevel(watch)] < config.cooldown
    /\ lastGate.now > last_alerts[OtherLevel(watch)]

\* C23: the items a pass has not checked yet (the disks or GPUs from idx on
\* in the list being walked, and everything of the later categories) have
\* no entry written by that pass, and the step in which a send fails and
\* the return of the pass leave the store as it was; and in the pass that
\* follows one ended by a failed CPU send, the memory alert, breaching in
\* every snapshot and with no entry inside its cooldown, is sent
position == IF pc = "send" THEN resume ELSE pc

DiskKeysFrom(i) ==
    {DiskKey(snapshot.disks[j].mountpoint, l) : j \in i..Len(snapshot.disks), l \in Levels}

GpuTempKeysFrom(i) ==
    {GpuTempKey(snapshot.gpus[j].index, l) :
        j \in {x \in i..Len(snapshot.gpus) : "index" \in DOMAIN snapshot.gpus[x]},
        l \in Levels}

GpuMemKeysFrom(i) ==
    {GpuMemKey(snapshot.gpus[j].index, l) :
        j \in {x \in i..Len(snapshot.gpus) : "index" \in DOMAIN snapshot.gpus[x]},
        l \in Levels}

UncheckedKeys ==
    CASE position = "check_cpu" ->
             {CpuKey(l) : l \in Levels} \cup {MemoryKey(l) : l \in Levels}
             \cup DiskKeysFrom(1) \cup GpuTempKeysFrom(1) \cup GpuMemKeysFrom(1)
      [] position = "check_memory" ->
             {MemoryKey(l) : l \in Levels}
             \cup DiskKeysFrom(1) \cup GpuTempKeysFrom(1) \cup GpuMemKeysFrom(1)
      [] position = "check_disk" ->
             DiskKeysFrom(idx) \cup GpuTempKeysFrom(1) \cup GpuMemKeysFrom(1)
      [] position = "check_gpu_temp" -> GpuTempKeysFrom(idx) \cup GpuMemKeysFrom(1)
      [] position = "check_gpu_memory" -> GpuMemKeysFrom(idx)
      [] OTHER -> {}

\* an entry written by the pass in progress holds a time from its start on
uncheckedUntouched ==
    \A k \in UncheckedKeys :
        /\ k \in DOMAIN last_alerts => last_alerts[k] < pass.start
        /\ \A i \in DOMAIN sent : sent[i].key # k

steadyMemoryKey ==
    MemoryKey(get_level(host.steady[MemoryKey("")], config.memory_warning,
                        config.memory_critical))

sentAfterFailedPass ==
    (/\ pc = "done"
     /\ pass.failed # "collect"
     /\ failedAt # -1
     /\ pass.start = failedAt + 1
     /\ \/ steadyMemoryKey \notin DOMAIN last_alerts
        \/ last_alerts[steadyMemoryKey] >= pass.start
        \/ pass.start - last_alerts[steadyMemoryKey] >= config.cooldown) =>
        \E i \in DOMAIN sent : sent[i].key = steadyMemoryKey

C23_UncheckedItemsKeepTheirSlot ==
    /\ [](uncheckedUntouched /\ sentAfterFailedPass)
    /\ [][(pc \in {"send", "done"} /\ pc' \in {"done", "loop"}) =>
              last_alerts' = last_alerts]_vars

\* C24: once stop() has set running to false, no pass is started; the for
\* loop is left at its next test and the while loop at its next test; a pass
\* that was in progress runs to its end; and the monitor thread leaves
\* run_schedule (as far as the time bound of the model lets it sleep and
\* collect)
stopped == ~running /\ thread # "none"

C24_StopEndsTheLoop ==
    /\ [][(stopped /\ ~passInProgress) => ~passInProgress']_vars
    /\ [][(stopped /\ thread = "L102" /\ thread' # thread) => thread' = "L99"]_vars
    /\ [][(stopped /\ thread = "L99" /\ thread' # thread) => thread' = "returned"]_vars
    /\ (stopped /\ passInProgress) ~> ~passInProgress
    /\ stopped ~> (thread = "returned" \/ clock = MaxTime)

============================================================================
